---------------------------- MODULE Spec2Model ----------------------------
(***************************************************************************)
(* SoundSplitter: the image-pair similarity scorer                         *)
(* (face_recognition_compare.py) and the PDF presenter extractor (col3.py).*)
(*                                                                         *)
(* Floats are fixed-point integers in units of 1/Scale.  Images are small  *)
(* grids of BGR pixels; cv2.resize is nearest-neighbour sampling to a      *)
(* PatchSide x PatchSide grid (the code's 100 x 100).                      *)
(***************************************************************************)
EXTENDS Integers, Sequences, FiniteSets, TLC

(* ------------------------------ bounds --------------------------------- *)
ImgSide == 2
\* side of a stored image, in pixels

PatchSide == 2
\* side of the canonical patch (cv2.resize target)

MaxFaces == 2
\* most regions the detector reports for one image

(* --------------------------- program constants ------------------------- *)
Scale == 1000
\* fixed-point denominator: the float 1.0

MaxPixel == 255

HistSize == 256

(* ------------------------------ helpers -------------------------------- *)
None == <<>>

Some(x) == <<x>>

Fixed(n, d) == (n * Scale) \div d

Abs(x) == IF x < 0 THEN -x ELSE x

Min2(a, b) == IF a < b THEN a ELSE b

Max2(a, b) == IF a > b THEN a ELSE b

Clamp(x) == Max2(0, Min2(Scale, x))

RECURSIVE SumSeq(_)
SumSeq(s) == IF Len(s) = 0 THEN 0 ELSE Head(s) + SumSeq(Tail(s))

RECURSIVE ISqrtIn(_, _, _)
ISqrtIn(n, lo, hi) ==
    IF lo >= hi THEN lo
    ELSE LET mid == (lo + hi + 1) \div 2
         IN IF mid * mid <= n THEN ISqrtIn(n, mid, hi) ELSE ISqrtIn(n, lo, mid - 1)

ISqrt(n) == ISqrtIn(n, 0, Min2(n, 46340))

(* ------------------------------ images --------------------------------- *)
Black == <<0, 0, 0>>
White == <<255, 255, 255>>
Dim   == <<51, 51, 51>>
Blue  == <<255, 0, 0>>

Coords(h, w) == (0 .. h - 1) \X (0 .. w - 1)

\* row-major list of the cells of an h x w grid
CellSeq(h, w) == [i \in 1 .. h * w |-> <<(i - 1) \div w, (i - 1) % w>>]

Uniform(p) ==
    [h |-> ImgSide, w |-> ImgSide, px |-> [rc \in Coords(ImgSide, ImgSide) |-> p]]

Checker(p, q) ==
    [h |-> ImgSide, w |-> ImgSide,
     px |-> [rc \in Coords(ImgSide, ImgSide) |->
                IF (rc[1] + rc[2]) % 2 = 0 THEN p ELSE q]]

TwoSpot ==
    [h |-> ImgSide, w |-> ImgSide,
     px |-> [rc \in Coords(ImgSide, ImgSide) |->
                IF rc = <<0, 0>> THEN White
                ELSE IF rc = <<0, 1>> THEN Dim ELSE Black]]

DimSpot ==
    [h |-> ImgSide, w |-> ImgSide,
     px |-> [rc \in Coords(ImgSide, ImgSide) |->
                IF rc = <<1, 0>> THEN Dim ELSE Black]]

Pictures ==
    {Uniform(Black), Uniform(White), Uniform(Blue),
     Checker(Black, White), Checker(White, Black), TwoSpot, DimSpot}

\* regions (x, y, w, h) a detector may report: positive size, inside the image
RegionChoices == {<<0, 0, ImgSide, ImgSide>>, <<0, 0, 1, 1>>}

Detections == UNION {[1 .. n -> RegionChoices] : n \in 0 .. MaxFaces}

\* an image file: whether cv2.imread can decode it, its pixels, and what the
\* pretrained cascade reports for it
Files ==
    {[loadable |-> FALSE, pixels |-> Uniform(Black), faces |-> <<>>]}
    \cup [loadable : {TRUE}, pixels : Pictures, faces : Detections]

\* messages of the exceptions a statement may raise
Exceptions == {"cv2.error", "MemoryError"}

(* -------------------------- library functions -------------------------- *)
\* cv2.imread: None when the file cannot be read
Imread(file) == IF file.loadable THEN Some(file.pixels) ELSE None

\* cv2.cvtColor(img, COLOR_BGR2GRAY)
GrayOf(p) == (p[1] * 1868 + p[2] * 9617 + p[3] * 4899 + 8192) \div 16384

CvtColorGray(img) ==
    [h |-> img.h, w |-> img.w,
     px |-> [rc \in Coords(img.h, img.w) |-> GrayOf(img.px[rc])]]

\* face_cascade.detectMultiScale: the classifier's answer for the file
DetectMultiScale(file) == file.faces

\* image[y:y+h, x:x+w]
Crop(img, x, y, w, h) ==
    LET y1 == Min2(y + h, img.h)
        x1 == Min2(x + w, img.w)
        ch == Max2(0, y1 - y)
        cw == Max2(0, x1 - x)
    IN [h |-> ch, w |-> cw,
        px |-> [rc \in Coords(ch, cw) |-> img.px[<<rc[1] + y, rc[2] + x>>]]]

\* cv2.resize(img, (PatchSide, PatchSide))
Resize(img) ==
    [h |-> PatchSide, w |-> PatchSide,
     px |-> [rc \in Coords(PatchSide, PatchSide) |->
                img.px[<<(rc[1] * img.h) \div PatchSide,
                         (rc[2] * img.w) \div PatchSide>>]]]

\* cv2.calcHist([img], [0], None, [256], [0, 256]): HistSize bins over channel
\* 0, kept sparse: count[b] for the occupied bins b, every other bin holds 0
CalcHist(img) ==
    LET occupied == {img.px[rc][1] : rc \in Coords(img.h, img.w)}
    IN [b \in occupied |->
          Cardinality({rc \in Coords(img.h, img.w) : img.px[rc][1] = b})]

RECURSIVE MinOf(_)
MinOf(S) ==
    LET x == CHOOSE y \in S : TRUE
    IN IF S = {x} THEN x ELSE Min2(x, MinOf(S \ {x}))

RECURSIVE MaxOf(_)
MaxOf(S) ==
    LET x == CHOOSE y \in S : TRUE
    IN IF S = {x} THEN x ELSE Max2(x, MaxOf(S \ {x}))

\* smallest and largest bin value of a sparse histogram
HistMin(hist) ==
    IF Cardinality(DOMAIN hist) < HistSize THEN 0
    ELSE MinOf({hist[b] : b \in DOMAIN hist})

HistMax(hist) ==
    IF DOMAIN hist = {} THEN 0 ELSE MaxOf({hist[b] : b \in DOMAIN hist})

\* cv2.normalize(hist, hist, 0, 1, NORM_MINMAX): bin b becomes
\* (hist[b] - min) / (max - min), kept as num[b] / den with the unoccupied
\* bins at rest / den; a constant histogram becomes all zero
NormalizeMinMax(hist) ==
    LET lo == HistMin(hist)
        hi == HistMax(hist)
    IN IF hi = lo
       THEN [num |-> [b \in DOMAIN hist |-> 0], rest |-> 0, den |-> 1]
       ELSE [num |-> [b \in DOMAIN hist |-> hist[b] - lo], rest |-> 0 - lo,
             den |-> hi - lo]

\* numerator of bin b of a normalized histogram
Bin(h, b) == IF b \in DOMAIN h.num THEN h.num[b] ELSE h.rest

RECURSIVE SumBins(_, _)
SumBins(h, S) ==
    IF S = {} THEN 0
    ELSE LET b == CHOOSE y \in S : TRUE
         IN Bin(h, b) + SumBins(h, S \ {b})

RECURSIVE DotBins(_, _, _)
DotBins(h1, h2, S) ==
    IF S = {} THEN 0
    ELSE LET b == CHOOSE y \in S : TRUE
         IN Bin(h1, b) * Bin(h2, b) + DotBins(h1, h2, S \ {b})

\* cv2.compareHist(h1, h2, HISTCMP_CORREL) over the HistSize bins:
\*   num / sqrt(denom2), or 1 when denom2 is 0.
\* With bin values a/d1 and b/d2 the denominators d1, d2 cancel.  The bins
\* occupied in neither histogram hold rest and are counted together.
CompareHistCorrel(h1, h2) ==
    LET S   == DOMAIN h1.num \cup DOMAIN h2.num
        m   == HistSize - Cardinality(S)
        s1  == SumBins(h1, S) + m * h1.rest
        s2  == SumBins(h2, S) + m * h2.rest
        s11 == DotBins(h1, h1, S) + m * h1.rest * h1.rest
        s22 == DotBins(h2, h2, S) + m * h2.rest * h2.rest
        s12 == DotBins(h1, h2, S) + m * h1.rest * h2.rest
        num == HistSize * s12 - s1 * s2
        dn1 == HistSize * s11 - s1 * s1
        dn2 == HistSize * s22 - s2 * s2
    IN IF dn1 * dn2 = 0 THEN Scale
       ELSE (num * Scale) \div ISqrt(dn1 * dn2)

\* sum over all cells and channels of cv2.absdiff(a, b), a and b colour images
AbsDiffSum(a, b) ==
    SumSeq([i \in 1 .. a.h * a.w |->
              LET rc == CellSeq(a.h, a.w)[i]
              IN Abs(a.px[rc][1] - b.px[rc][1]) + Abs(a.px[rc][2] - b.px[rc][2])
                 + Abs(a.px[rc][3] - b.px[rc][3])])

\* the same for single-channel images
AbsDiffSumGray(a, b) ==
    SumSeq([i \in 1 .. a.h * a.w |->
              LET rc == CellSeq(a.h, a.w)[i] IN Abs(a.px[rc] - b.px[rc])])

(* ------------------------- the program's functions --------------------- *)
RECURSIVE LargestFrom(_, _, _, _)
LargestFrom(faces, i, largest_area, largest_face) ==
    IF i > Len(faces) THEN largest_face
    ELSE LET area == faces[i][3] * faces[i][4]
         IN IF area > largest_area
            THEN LargestFrom(faces, i + 1, area, Some(faces[i]))
            ELSE LargestFrom(faces, i + 1, largest_area, largest_face)

\* variant: the largest face is replaced on an equal area too
RECURSIVE LargestFromLastTie(_, _, _, _)
LargestFromLastTie(faces, i, largest_area, largest_face) ==
    IF i > Len(faces) THEN largest_face
    ELSE LET area == faces[i][3] * faces[i][4]
         IN IF area >= largest_area
            THEN LargestFromLastTie(faces, i + 1, area, Some(faces[i]))
            ELSE LargestFromLastTie(faces, i + 1, largest_area, largest_face)

get_largest_face_last_tie(faces) ==
    IF Len(faces) = 0 THEN None ELSE LargestFromLastTie(faces, 1, 0, None)

get_largest_face(faces) ==
    IF Len(faces) = 0 THEN None ELSE LargestFrom(faces, 1, 0, None)

extract_face_region(image, face) ==
    IF face = None THEN None
    ELSE LET f == face[1]
         IN Some(Resize(Crop(image, f[1], f[2], f[3], f[4])))

HistSimilarity(face1, face2) ==
    CompareHistCorrel(NormalizeMinMax(CalcHist(face1)),
                      NormalizeMinMax(CalcHist(face2)))

\* variant: the arrays are subtracted without cv2.absdiff
PixelSimilaritySigned(face1, face2) ==
    Scale - (SumSeq([i \in 1 .. face1.h * face1.w |->
                       LET rc == CellSeq(face1.h, face1.w)[i]
                       IN (face1.px[rc][1] - face2.px[rc][1])
                          + (face1.px[rc][2] - face2.px[rc][2])
                          + (face1.px[rc][3] - face2.px[rc][3])]) * Scale)
              \div (3 * face1.h * face1.w * MaxPixel)

PixelSimilarity(face1, face2) ==
    Scale - (AbsDiffSum(face1, face2) * Scale)
              \div (3 * face1.h * face1.w * MaxPixel)

\* variant: the combined similarity is returned without the final clamp
compare_face_regions_unclamped(face1, face2) ==
    IF face1 = None \/ face2 = None THEN Fixed(3, 10)
    ELSE (HistSimilarity(face1[1], face2[1]) * 6
          + PixelSimilarity(face1[1], face2[1]) * 4) \div 10

\* variant: the two weights are exchanged
compare_face_regions_swapped(face1, face2) ==
    IF face1 = None \/ face2 = None THEN Fixed(3, 10)
    ELSE Clamp((HistSimilarity(face1[1], face2[1]) * 4
                + PixelSimilarity(face1[1], face2[1]) * 6) \div 10)

compare_face_regions(face1, face2) ==
    IF face1 = None \/ face2 = None THEN Fixed(3, 10)
    ELSE LET hist_similarity  == HistSimilarity(face1[1], face2[1])
             pixel_similarity == PixelSimilarity(face1[1], face2[1])
             combined_similarity ==
                 (hist_similarity * 6 + pixel_similarity * 4) \div 10
         IN Clamp(combined_similarity)

\* variant: the mean difference itself is returned as the similarity
basic_image_comparison_difference(image1, image2) ==
    LET g1 == CvtColorGray(Resize(image1))
        g2 == CvtColorGray(Resize(image2))
    IN Clamp((AbsDiffSumGray(g1, g2) * Scale) \div (g1.h * g1.w * MaxPixel))

basic_image_comparison(image1, image2) ==
    LET g1 == CvtColorGray(Resize(image1))
        g2 == CvtColorGray(Resize(image2))
        similarity ==
            Scale - (AbsDiffSumGray(g1, g2) * Scale)
                      \div (g1.h * g1.w * MaxPixel)
    IN Clamp(similarity)

\* variant: a load failure reported with the neutral score
LoadFailureResultNeutral ==
    [similarity |-> Fixed(5, 10), person_change |-> FALSE,
     confidence |-> Fixed(5, 10), error |-> "Failed to load images"]

\* variant: an exception reported with the pessimistic score
ExceptionResultPessimistic(e) ==
    [similarity |-> Fixed(3, 10), person_change |-> TRUE,
     confidence |-> Fixed(3, 10), error |-> e]

\* variant: the face threshold is inclusive
FacePersonChangeInclusive(sim) == sim <= Fixed(6, 10)

\* variant: the fallback is taken only when neither image has a face
UseFallbackBoth(f1, f2) == Len(f1) = 0 /\ Len(f2) = 0

\* the three result dictionaries of compare_faces
LoadFailureResult ==
    [similarity |-> Fixed(3, 10), person_change |-> TRUE,
     confidence |-> Fixed(3, 10), error |-> "Failed to load images"]

ExceptionResult(e) ==
    [similarity |-> Fixed(5, 10), person_change |-> FALSE,
     confidence |-> Fixed(5, 10), error |-> e]

ScoreResult(sim, change) ==
    [similarity |-> sim, person_change |-> change, confidence |-> sim]

FallbackPersonChange(sim) == sim < Fixed(7, 10)

FacePersonChange(sim) == sim < Fixed(6, 10)

UseFallback(f1, f2) == Len(f1) = 0 \/ Len(f2) = 0

(* ------------------------------- state --------------------------------- *)
VARIABLES
    args,            \* <<image1_path, image2_path>>: the two files
    round,           \* 1: first call; 2: the call with the arguments swapped
    prev,            \* what the first call returned
    pc,              \* the statement compare_faces is at
    image1, image2,
    gray1, gray2,
    faces1, faces2,
    largest_face1, largest_face2,
    face1_region, face2_region,
    similarity,
    result,          \* the returned dictionary
    mode,            \* which return statement produced it
    raised,          \* the exception caught, if any
    pdf,             \* extract_presenters_from_pdf: the pages of the document
    page_num, table_num, row_num,
    presenters,
    returned         \* what extract_presenters_from_pdf returned

pdfVars == <<pdf, page_num, table_num, row_num, presenters, returned>>

vars ==
    <<pdf, page_num, table_num, row_num, presenters, returned, args, round, prev, pc, image1, image2, gray1, gray2, faces1, faces2,
      largest_face1, largest_face2, face1_region, face2_region, similarity,
      result, mode, raised>>

locals ==
    <<image1, image2, gray1, gray2, faces1, faces2, largest_face1,
      largest_face2, face1_region, face2_region, similarity>>

TrySteps ==
    {"imread1", "imread2", "check", "gray", "detect", "branch", "basic",
     "largest", "extract", "compare", "decide"}

EnterCall ==
    /\ pc = "imread1"
    /\ image1 = None /\ image2 = None
    /\ gray1 = None /\ gray2 = None
    /\ faces1 = <<>> /\ faces2 = <<>>
    /\ largest_face1 = None /\ largest_face2 = None
    /\ face1_region = None /\ face2_region = None
    /\ similarity = 0
    /\ result = None
    /\ mode = "running"
    /\ raised = None

PdfIdle ==
    /\ pdf = <<>>
    /\ page_num = 0 /\ table_num = 0 /\ row_num = 0
    /\ presenters = <<>>
    /\ returned = None

Init ==
    /\ args \in Files \X Files
    /\ round = 1
    /\ prev = None
    /\ EnterCall
    /\ PdfIdle

\* line 20
Imread1 ==
    /\ pc = "imread1"
    /\ image1' = Imread(args[1])
    /\ pc' = "imread2"
    /\ UNCHANGED <<pdfVars, args, round, prev, image2, gray1, gray2, faces1, faces2,
                   largest_face1, largest_face2, face1_region, face2_region,
                   similarity, result, mode, raised>>

\* line 21
Imread2 ==
    /\ pc = "imread2"
    /\ image2' = Imread(args[2])
    /\ pc' = "check"
    /\ UNCHANGED <<pdfVars, args, round, prev, image1, gray1, gray2, faces1, faces2,
                   largest_face1, largest_face2, face1_region, face2_region,
                   similarity, result, mode, raised>>

\* lines 23-25
CheckLoaded ==
    /\ pc = "check"
    /\ IF image1 = None \/ image2 = None
       THEN /\ result' = LoadFailureResult
            /\ mode' = "load_failure"
            /\ pc' = "done"
       ELSE /\ pc' = "gray"
            /\ UNCHANGED <<result, mode>>
    /\ UNCHANGED <<pdfVars, args, round, prev, locals, raised>>

\* lines 28-29
ConvertGray ==
    /\ pc = "gray"
    /\ gray1' = Some(CvtColorGray(image1[1]))
    /\ gray2' = Some(CvtColorGray(image2[1]))
    /\ pc' = "detect"
    /\ UNCHANGED <<pdfVars, args, round, prev, image1, image2, faces1, faces2,
                   largest_face1, largest_face2, face1_region, face2_region,
                   similarity, result, mode, raised>>

\* lines 32-36
DetectFaces ==
    /\ pc = "detect"
    /\ faces1' = DetectMultiScale(args[1])
    /\ faces2' = DetectMultiScale(args[2])
    /\ pc' = "branch"
    /\ UNCHANGED <<pdfVars, args, round, prev, image1, image2, gray1, gray2,
                   largest_face1, largest_face2, face1_region, face2_region,
                   similarity, result, mode, raised>>

\* line 41
Branch ==
    /\ pc = "branch"
    /\ pc' = IF UseFallback(faces1, faces2) THEN "basic" ELSE "largest"
    /\ UNCHANGED <<pdfVars, args, round, prev, locals, result, mode, raised>>

\* lines 43-45
BasicComparison ==
    /\ pc = "basic"
    /\ LET sim == basic_image_comparison(image1[1], image2[1])
       IN /\ similarity' = sim
          /\ result' = ScoreResult(sim, FallbackPersonChange(sim))
    /\ mode' = "fallback"
    /\ pc' = "done"
    /\ UNCHANGED <<pdfVars, args, round, prev, image1, image2, gray1, gray2, faces1,
                   faces2, largest_face1, largest_face2, face1_region,
                   face2_region, raised>>

\* lines 48-49
SelectLargest ==
    /\ pc = "largest"
    /\ largest_face1' = get_largest_face(faces1)
    /\ largest_face2' = get_largest_face(faces2)
    /\ pc' = "extract"
    /\ UNCHANGED <<pdfVars, args, round, prev, image1, image2, gray1, gray2, faces1,
                   faces2, face1_region, face2_region, similarity, result,
                   mode, raised>>

\* lines 52-53
ExtractRegions ==
    /\ pc = "extract"
    /\ face1_region' = extract_face_region(image1[1], largest_face1)
    /\ face2_region' = extract_face_region(image2[1], largest_face2)
    /\ pc' = "compare"
    /\ UNCHANGED <<pdfVars, args, round, prev, image1, image2, gray1, gray2, faces1,
                   faces2, largest_face1, largest_face2, similarity, result,
                   mode, raised>>

\* line 56
CompareRegions ==
    /\ pc = "compare"
    /\ similarity' = compare_face_regions(face1_region, face2_region)
    /\ pc' = "decide"
    /\ UNCHANGED <<pdfVars, args, round, prev, image1, image2, gray1, gray2, faces1,
                   faces2, largest_face1, largest_face2, face1_region,
                   face2_region, result, mode, raised>>

\* lines 59-68
Decide ==
    /\ pc = "decide"
    /\ result' = ScoreResult(similarity, FacePersonChange(similarity))
    /\ mode' = "face"
    /\ pc' = "done"
    /\ UNCHANGED <<pdfVars, args, round, prev, locals, raised>>

\* lines 70-72: the statement at pc raises e; the handler returns
Raise ==
    /\ pc \in TrySteps
    /\ \E e \in Exceptions :
          /\ raised' = Some([at |-> pc, message |-> e])
          /\ result' = ExceptionResult(e)
    /\ mode' = "fault"
    /\ pc' = "done"
    /\ UNCHANGED <<pdfVars, args, round, prev, locals>>

\* the caller compares the same two files the other way round
SwapCall ==
    /\ pc = "done"
    /\ round = 1
    /\ raised = None
    /\ prev' = Some([result |-> result, mode |-> mode])
    /\ args' = <<args[2], args[1]>>
    /\ round' = 2
    /\ pc' = "imread1"
    /\ image1' = None /\ image2' = None
    /\ gray1' = None /\ gray2' = None
    /\ faces1' = <<>> /\ faces2' = <<>>
    /\ largest_face1' = None /\ largest_face2' = None
    /\ face1_region' = None /\ face2_region' = None
    /\ similarity' = 0
    /\ result' = None
    /\ mode' = "running"
    /\ raised' = None
    /\ UNCHANGED pdfVars

Next ==
    \/ Imread1 \/ Imread2 \/ CheckLoaded \/ ConvertGray \/ DetectFaces
    \/ Branch \/ BasicComparison \/ SelectLargest \/ ExtractRegions
    \/ CompareRegions \/ Decide \/ Raise \/ SwapCall

Spec == Init /\ [][Next]_vars

(* ------------------- get_largest_face on its own ---------------------- *)
MaxRegions == 3
\* longest sequence of regions passed to get_largest_face

MaxDim == 2
\* largest width and height of a region

\* regions of positive width and height, as the detector reports them
SelRegions ==
    {<<x, 0, w, h>> : x \in 0 .. 1, w \in 1 .. MaxDim, h \in 1 .. MaxDim}

RegionSeqs == UNION {[1 .. n -> SelRegions] : n \in 0 .. MaxRegions}

InitLargest ==
    /\ faces1 \in RegionSeqs
    /\ pc = "get_largest_face"
    /\ args = <<>>
    /\ round = 1
    /\ prev = None
    /\ image1 = None /\ image2 = None
    /\ gray1 = None /\ gray2 = None
    /\ faces2 = <<>>
    /\ largest_face1 = None /\ largest_face2 = None
    /\ face1_region = None /\ face2_region = None
    /\ similarity = 0
    /\ result = None
    /\ mode = "running"
    /\ raised = None
    /\ PdfIdle

\* lines 74-88, called with faces1
CallGetLargestFace ==
    /\ pc = "get_largest_face"
    /\ largest_face1' = get_largest_face(faces1)
    /\ pc' = "returned"
    /\ UNCHANGED <<pdfVars, args, round, prev, image1, image2, gray1, gray2,
                   faces1, faces2, largest_face2, face1_region, face2_region,
                   similarity, result, mode, raised>>

NextLargest == CallGetLargestFace

SpecLargest == InitLargest /\ [][NextLargest]_vars

(* ------------------- extract_presenters_from_pdf ---------------------- *)
\* Strings are sequences of one-character strings.
MaxPages == 3
\* most pages of a document

Whitespace == {" ", "\n", "\t"}

Digits == {"0", "1", "2", "3", "4", "5", "6", "7", "8", "9"}

UpperChars ==
    <<"A", "B", "C", "D", "E", "F", "G", "H", "I", "J", "K", "L", "M",
      "N", "O", "P", "Q", "R", "S", "T", "U", "V", "W", "X", "Y", "Z">>

LowerChars ==
    <<"a", "b", "c", "d", "e", "f", "g", "h", "i", "j", "k", "l", "m",
      "n", "o", "p", "q", "r", "s", "t", "u", "v", "w", "x", "y", "z">>

LowerChar(c) ==
    IF \E i \in 1 .. 26 : UpperChars[i] = c
    THEN LowerChars[CHOOSE i \in 1 .. 26 : UpperChars[i] = c]
    ELSE c

\* str.lower()
Lower(str) == [i \in 1 .. Len(str) |-> LowerChar(str[i])]

RECURSIVE LStrip(_)
LStrip(str) ==
    IF str # <<>> /\ Head(str) \in Whitespace THEN LStrip(Tail(str)) ELSE str

RECURSIVE RStrip(_)
RStrip(str) ==
    IF str # <<>> /\ str[Len(str)] \in Whitespace
    THEN RStrip(SubSeq(str, 1, Len(str) - 1))
    ELSE str

\* str.strip()
Strip(str) == RStrip(LStrip(str))

\* str.replace(c, '')
RECURSIVE Remove(_, _)
Remove(str, c) ==
    IF str = <<>> THEN <<>>
    ELSE IF Head(str) = c THEN Remove(Tail(str), c)
    ELSE <<Head(str)>> \o Remove(Tail(str), c)

\* str.isdigit()
IsDigit(str) == str # <<>> /\ \A i \in 1 .. Len(str) : str[i] \in Digits

\* str.split('\n')
RECURSIVE SplitLines(_, _)
SplitLines(str, cur) ==
    IF str = <<>> THEN <<cur>>
    ELSE IF Head(str) = "\n" THEN <<cur>> \o SplitLines(Tail(str), <<>>)
    ELSE SplitLines(Tail(str), Append(cur, Head(str)))

\* str.split('  ')
RECURSIVE SplitDoubleSpace(_, _)
SplitDoubleSpace(str, cur) ==
    IF str = <<>> THEN <<cur>>
    ELSE IF Len(str) >= 2 /\ str[1] = " " /\ str[2] = " "
    THEN <<cur>> \o SplitDoubleSpace(SubSeq(str, 3, Len(str)), <<>>)
    ELSE SplitDoubleSpace(Tail(str), Append(cur, Head(str)))

\* [p.strip() for p in parts if p.strip()]
RECURSIVE StripParts(_)
StripParts(parts) ==
    IF parts = <<>> THEN <<>>
    ELSE IF Strip(Head(parts)) # <<>>
    THEN <<Strip(Head(parts))>> \o StripParts(Tail(parts))
    ELSE StripParts(Tail(parts))

HeaderWords ==
    {<<"p", "r", "e", "s", "e", "n", "t", "e", "r">>, <<"t", "i", "m", "e">>,
     <<"r", "o", "l", "e">>, <<"e", "v", "e", "n", "t">>}

SpecificHeaders ==
    {<<"s", "t", "a", "r", "t", "i", "n", "g", " ", "a", "t", ":">>,
     <<"t", "h", "e", "m", "e", ":", " ", "o", "u", "r", " ", "s", "u", "p",
       "e", "r">>}

\* the three nested tests of lines 27-31 and 53-56
KeepPresenter(presenter) ==
    /\ presenter # <<>>
    /\ Lower(presenter) \notin HeaderWords
    /\ ~IsDigit(Remove(Remove(presenter, ":"), "."))
    /\ Lower(presenter) \notin SpecificHeaders

Record(presenter, page_index, row_index) ==
    [presenter |-> presenter, page |-> page_index + 1, row |-> row_index + 1]

\* lines 22-37: the records one table row adds (none or one)
RowRecords(row, page_index, row_index) ==
    IF Len(row) >= 3
    THEN LET presenter == IF row[3] # None /\ row[3][1] # <<>>
                          THEN Strip(row[3][1]) ELSE <<>>
         IN IF KeepPresenter(presenter)
            THEN <<Record(presenter, page_index, row_index)>>
            ELSE <<>>
    ELSE <<>>

\* lines 46-62: the records the lines from line_index on add
RECURSIVE LineRecords(_, _, _)
LineRecords(lines, page_index, line_index) ==
    IF line_index >= Len(lines) THEN <<>>
    ELSE LET parts == StripParts(SplitDoubleSpace(lines[line_index + 1], <<>>))
             here  == IF Len(parts) >= 3 /\ KeepPresenter(parts[3])
                      THEN <<Record(parts[3], page_index, line_index)>>
                      ELSE <<>>
         IN here \o LineRecords(lines, page_index, line_index + 1)

\* lines 41-62: the records a page without tables adds
TextRecords(text, page_index) ==
    IF text # None /\ text[1] # <<>>
    THEN LineRecords(SplitLines(text[1], <<>>), page_index, 0)
    ELSE <<>>

\* variant: the handler returns what was collected so far
ExceptReturnCollected(collected) == collected

\* what the except handler returns
ExceptReturn(collected) == <<>>

\* cells, rows, tables and pages of the documents
Cell(str) == <<str>>

Row(cell) == <<Cell(<<"x">>), Cell(<<"y">>), cell>>

ShortRow == <<Cell(<<"x">>), Cell(<<"A", "l">>)>>

TableNames ==
    <<Row(Cell(<<"P", "r", "e", "s", "e", "n", "t", "e", "r">>)),
      Row(Cell(<<" ", "A", "l", " ">>)),
      Row(Cell(<<"7", ":", "3", "0">>))>>

TableMixed ==
    <<ShortRow, Row(None), Row(Cell(<<"B", "o">>)), <<>>>>

TableHeaders ==
    <<Row(Cell(<<"S", "t", "a", "r", "t", "i", "n", "g", " ", "a", "t", ":">>)),
      Row(Cell(<<" ">>)), Row(Cell(<<"1", ".", "5">>))>>

\* "t  r  Role\n7:30   x  Cy\nCy  Di"
PageText ==
    <<"t", " ", " ", "r", " ", " ", "R", "o", "l", "e", "\n",
      "7", ":", "3", "0", " ", " ", " ", "x", " ", " ", "C", "y", "\n",
      "C", "y", " ", " ", "D", "i">>

Pages ==
    {[tables |-> <<TableNames>>, text |-> None],
     [tables |-> <<TableMixed, TableNames>>, text |-> Cell(PageText)],
     [tables |-> <<TableHeaders>>, text |-> None],
     [tables |-> <<>>, text |-> Cell(PageText)],
     [tables |-> <<>>, text |-> None]}

Documents == UNION {[1 .. n -> Pages] : n \in 0 .. MaxPages}

PdfTrySteps == {"open", "for", "tables", "row", "text"}

InitPdf ==
    /\ pdf \in Documents
    /\ page_num = 0 /\ table_num = 0 /\ row_num = 0
    /\ presenters = <<>>
    /\ returned = None
    /\ pc = "open"
    /\ args = <<>>
    /\ round = 1
    /\ prev = None
    /\ image1 = None /\ image2 = None
    /\ gray1 = None /\ gray2 = None
    /\ faces1 = <<>> /\ faces2 = <<>>
    /\ largest_face1 = None /\ largest_face2 = None
    /\ face1_region = None /\ face2_region = None
    /\ similarity = 0
    /\ result = None
    /\ mode = "running"
    /\ raised = None

faceVars ==
    <<args, round, prev, image1, image2, gray1, gray2, faces1, faces2,
      largest_face1, largest_face2, face1_region, face2_region, similarity,
      result, mode>>

\* line 10
OpenPdf ==
    /\ pc = "open"
    /\ pc' = "for"
    /\ UNCHANGED <<pdfVars, faceVars, raised>>

\* line 11 with another page to process
NextPage ==
    /\ pc = "for"
    /\ page_num < Len(pdf)
    /\ pc' = "tables"
    /\ UNCHANGED <<pdfVars, faceVars, raised>>

\* line 11 with no page left, then line 68
ReturnPresenters ==
    /\ pc = "for"
    /\ page_num = Len(pdf)
    /\ returned' = Some(presenters)
    /\ pc' = "done"
    /\ UNCHANGED <<pdf, page_num, table_num, row_num, presenters, faceVars,
                   raised>>

\* lines 15-17 and 40
ExtractTables ==
    /\ pc = "tables"
    /\ table_num' = 0
    /\ row_num' = 0
    /\ pc' = IF pdf[page_num + 1].tables # <<>> THEN "row" ELSE "text"
    /\ UNCHANGED <<pdf, page_num, presenters, returned, faceVars, raised>>

\* lines 21-37: one row of the current table
ProcessRow ==
    /\ pc = "row"
    /\ table_num < Len(pdf[page_num + 1].tables)
    /\ row_num < Len(pdf[page_num + 1].tables[table_num + 1])
    /\ presenters' =
          presenters
          \o RowRecords(pdf[page_num + 1].tables[table_num + 1][row_num + 1],
                        page_num, row_num)
    /\ row_num' = row_num + 1
    /\ UNCHANGED <<pdf, page_num, table_num, returned, pc, faceVars, raised>>

\* line 18: the rows of the current table are done
NextTable ==
    /\ pc = "row"
    /\ table_num < Len(pdf[page_num + 1].tables)
    /\ row_num = Len(pdf[page_num + 1].tables[table_num + 1])
    /\ table_num' = table_num + 1
    /\ row_num' = 0
    /\ UNCHANGED <<pdf, page_num, presenters, returned, pc, faceVars, raised>>

\* lines 18 and 40: the tables of the page are done, the text is not read
EndTables ==
    /\ pc = "row"
    /\ table_num = Len(pdf[page_num + 1].tables)
    /\ page_num' = page_num + 1
    /\ pc' = "for"
    /\ UNCHANGED <<pdf, table_num, row_num, presenters, returned, faceVars,
                   raised>>

\* lines 40-62
ProcessText ==
    /\ pc = "text"
    /\ presenters' = presenters \o TextRecords(pdf[page_num + 1].text, page_num)
    /\ page_num' = page_num + 1
    /\ pc' = "for"
    /\ UNCHANGED <<pdf, table_num, row_num, returned, faceVars, raised>>

\* lines 64-66: the statement at pc raises e
RaisePdf ==
    /\ pc \in PdfTrySteps
    /\ \E e \in Exceptions : raised' = Some([at |-> pc, message |-> e])
    /\ returned' = Some(ExceptReturn(presenters))
    /\ pc' = "done"
    /\ UNCHANGED <<pdf, page_num, table_num, row_num, presenters, faceVars>>

NextPdf ==
    \/ OpenPdf \/ NextPage \/ ReturnPresenters \/ ExtractTables
    \/ ProcessRow \/ NextTable \/ EndTables \/ ProcessText \/ RaisePdf

SpecPdf == InitPdf /\ [][NextPdf]_vars

(* ------------------------ claims: compare_faces ------------------------ *)
Returned == pc = "done"

ThreeTenths == (3 * Scale) \div 10

FiveTenths == (5 * Scale) \div 10

HasError(r) == "error" \in DOMAIN r

Area(f) == f[3] * f[4]

\* C1: every returned result, on every path, has similarity in [0,1] and
\* confidence equal to similarity.
C1_SimilarityInRange ==
    Returned =>
        /\ result.similarity >= 0
        /\ result.similarity <= Scale
        /\ result.confidence = result.similarity

\* a face-mode call whose histogram correlation is negative and whose weighted
\* sum is below 0
C1_Witness ==
    /\ Returned
    /\ mode = "face"
    /\ HistSimilarity(face1_region[1], face2_region[1]) < 0
    /\ result.similarity = 0

\* C2: person_change is similarity < 0.6 in face-present mode and
\* similarity < 0.7 in fallback mode, both strict.
C2_Thresholds ==
    Returned =>
        /\ mode = "face" =>
              result.person_change = (10 * result.similarity < 6 * Scale)
        /\ mode = "fallback" =>
              result.person_change = (10 * result.similarity < 7 * Scale)

\* a face-mode score of exactly 0.6, reported as no change
C2_Witness ==
    /\ Returned
    /\ mode = "face"
    /\ 10 * result.similarity = 6 * Scale
    /\ result.person_change = FALSE

\* C3: when imread gave no image for either input, the call returns exactly
\* the pessimistic result and has run no detection or scoring step.
C3_LoadFailure ==
    (/\ pc \notin {"imread1", "imread2", "check"}
     /\ raised = None
     /\ (image1 = None \/ image2 = None))
    => /\ Returned
       /\ mode = "load_failure"
       /\ result.similarity = ThreeTenths
       /\ result.confidence = ThreeTenths
       /\ result.person_change = TRUE
       /\ HasError(result) /\ result.error # ""
       /\ DOMAIN result = {"similarity", "person_change", "confidence", "error"}
       /\ gray1 = None /\ gray2 = None
       /\ faces1 = <<>> /\ faces2 = <<>>
       /\ largest_face1 = None /\ largest_face2 = None
       /\ face1_region = None /\ face2_region = None
       /\ similarity = 0

\* the first image loads, the second does not
C3_Witness ==
    /\ Returned
    /\ raised = None
    /\ image1 # None
    /\ image2 = None
    /\ mode = "load_failure"

\* C4: an exception raised at any statement of the try block ends the call
\* with exactly the neutral result carrying the exception's message.
C4_ExceptionNeutral ==
    raised # None =>
        /\ Returned
        /\ result.similarity = FiveTenths
        /\ result.confidence = FiveTenths
        /\ result.person_change = FALSE
        /\ HasError(result) /\ result.error = raised[1].message
        /\ DOMAIN result = {"similarity", "person_change", "confidence", "error"}

\* the exception is raised by the scoring of the two face patches
C4_Witness ==
    /\ raised # None
    /\ raised[1].at = "compare"
    /\ face1_region # None
    /\ Returned

\* C5: past the branch, the face-present path is taken iff both images have
\* at least one detected region; a fallback result carries no error field.
C5_ModeSelection ==
    /\ pc = "basic" => (Len(faces1) = 0 \/ Len(faces2) = 0)
    /\ pc \in {"largest", "extract", "compare", "decide"} =>
          (Len(faces1) > 0 /\ Len(faces2) > 0)
    /\ (Returned /\ mode = "fallback") =>
          /\ (Len(faces1) = 0 \/ Len(faces2) = 0)
          /\ ~HasError(result)
    /\ (Returned /\ mode = "face") =>
          /\ Len(faces1) > 0 /\ Len(faces2) > 0
          /\ largest_face1 # None /\ largest_face2 # None
          /\ face1_region[1].h = PatchSide /\ face1_region[1].w = PatchSide
          /\ face2_region[1].h = PatchSide /\ face2_region[1].w = PatchSide

\* one image has a face, the other has none: fallback, no error
C5_Witness ==
    /\ Returned
    /\ mode = "fallback"
    /\ Len(faces1) > 0
    /\ Len(faces2) = 0

\* C7: the face-mode score is clamp(0.6 * hist + 0.4 * pixel, 0, 1) with
\* pixel = 1 - mean(|patch1 - patch2|) / 255.
C7_FusedScore ==
    pc = "decide" =>
        LET f1 == face1_region[1]
            f2 == face2_region[1]
            h  == HistSimilarity(f1, f2)
            p  == Scale - (AbsDiffSum(f1, f2) * Scale)
                            \div (3 * PatchSide * PatchSide * 255)
            w  == 6 * h + 4 * p
        IN /\ h >= -Scale /\ h <= Scale
           /\ p >= 0 /\ p <= Scale
           /\ similarity = IF w < 0 THEN 0
                           ELSE IF w > 10 * Scale THEN Scale ELSE w \div 10

\* a weighted sum below 0, returned as 0
C7_Witness ==
    /\ pc = "decide"
    /\ 6 * HistSimilarity(face1_region[1], face2_region[1])
         + 4 * PixelSimilarity(face1_region[1], face2_region[1]) < 0
    /\ similarity = 0

\* C8: a loadable image compared with itself scores 1.0 with no person
\* change, in the face-present and in the fallback branch.
C8_SelfComparison ==
    (Returned /\ raised = None /\ args[1] = args[2] /\ args[1].loadable) =>
        /\ mode \in {"face", "fallback"}
        /\ result.similarity = Scale
        /\ result.person_change = FALSE

\* the same file twice, a face detected, the smaller of two regions not chosen
C8_Witness ==
    /\ Returned
    /\ raised = None
    /\ args[1] = args[2]
    /\ mode = "face"
    /\ Len(faces1) = 2
    /\ result.similarity = Scale

\* C9: the call with the two arguments exchanged takes the same branch and
\* returns the same result.
C9_Symmetric ==
    (Returned /\ round = 2 /\ raised = None) =>
        /\ mode = prev[1].mode
        /\ result.similarity = prev[1].result.similarity
        /\ result.person_change = prev[1].result.person_change
        /\ result.confidence = prev[1].result.confidence

\* two different pictures with different detections, compared both ways round
C9_Witness ==
    /\ Returned
    /\ round = 2
    /\ raised = None
    /\ mode = "face"
    /\ args[1].pixels # args[2].pixels
    /\ Len(faces1) # Len(faces2)
    /\ result.similarity > 0
    /\ result.similarity < Scale

(* ----------------------- claims: get_largest_face --------------------- *)
\* C6: for a non-empty sequence get_largest_face returns the first region of
\* maximum area w * h; for an empty sequence it returns None.
C6_LargestFirst ==
    pc = "returned" =>
        IF Len(faces1) = 0
        THEN largest_face1 = None
        ELSE \E i \in 1 .. Len(faces1) :
                /\ largest_face1 = <<faces1[i]>>
                /\ \A j \in 1 .. Len(faces1) : Area(faces1[j]) <= Area(faces1[i])
                /\ \A j \in 1 .. i - 1 : Area(faces1[j]) < Area(faces1[i])

\* two different regions share the maximum area and the earlier one is returned
C6_Witness ==
    /\ pc = "returned"
    /\ \E i, j \in 1 .. Len(faces1) :
          /\ i < j
          /\ faces1[i] # faces1[j]
          /\ Area(faces1[i]) = Area(faces1[j])
          /\ \A k \in 1 .. Len(faces1) : Area(faces1[k]) <= Area(faces1[i])
          /\ \A k \in 1 .. i - 1 : Area(faces1[k]) < Area(faces1[i])
          /\ largest_face1 = <<faces1[i]>>

(* ------------------ claims: extract_presenters_from_pdf --------------- *)
RECURSIVE Ascending(_)
Ascending(S) ==
    IF S = {} THEN <<>>
    ELSE LET m == CHOOSE x \in S : \A y \in S : x <= y
         IN <<m>> \o Ascending(S \ {m})

\* the presenter a table row holds, stripped; empty when there is none
RowPresenter(row) ==
    IF Len(row) >= 3 /\ row[3] # <<>> THEN Strip(row[3][1]) ELSE <<>>

\* the records of one table: a record for each row whose presenter is kept,
\* in row order, numbered from 1
RecordsOfTable(table, p) ==
    LET kept == {r \in 1 .. Len(table) : KeepPresenter(RowPresenter(table[r]))}
        order == Ascending(kept)
    IN [k \in 1 .. Len(order) |->
          [presenter |-> RowPresenter(table[order[k]]), page |-> p,
           row |-> order[k]]]

RECURSIVE RecordsOfTables(_, _)
RecordsOfTables(tables, p) ==
    IF tables = <<>> THEN <<>>
    ELSE RecordsOfTable(Head(tables), p) \o RecordsOfTables(Tail(tables), p)

RecordsOfPage(page, p) ==
    IF page.tables # <<>> THEN RecordsOfTables(page.tables, p)
    ELSE TextRecords(page.text, p - 1)

RECURSIVE RecordsOfPages(_, _)
RecordsOfPages(doc, p) ==
    IF p > Len(doc) THEN <<>>
    ELSE RecordsOfPage(doc[p], p) \o RecordsOfPages(doc, p + 1)

\* C10: extract_presenters_from_pdf returns the records of every page, in
\* page order then row order, numbered from 1, or the empty list when an
\* exception occurred; never the records collected before the exception.
C10_AllOrNothing ==
    pc = "done" =>
        IF raised = None
        THEN returned = <<RecordsOfPages(pdf, 1)>>
        ELSE returned = <<<<>>>>

\* an exception on a later page, after records were collected
C10_Witness ==
    /\ pc = "done"
    /\ raised # None
    /\ page_num >= 1
    /\ Len(presenters) >= 2
    /\ returned = <<<<>>>>

=============================================================================
